---- MODULE Spec2Model ----
(***************************************************************************)
(* BLE tag state machine of IAM_PCB_TAG.ino.                               *)
(*                                                                         *)
(* Two execution contexts share the globals of the sketch without any     *)
(* lock: the Arduino loop task (loop() and the mode handlers) and the BLE *)
(* task that runs the server and characteristic callbacks.  Each context  *)
(* has a program position (pcLoop, pcCb); one action is one access to the *)
(* shared globals, so that the two contexts interleave the way the build  *)
(* lets them.  SpecSerial is the same program with every callback and     *)
(* every pass of loop() run to completion before the other context moves. *)
(***************************************************************************)
EXTENDS Integers, Sequences, FiniteSets, TLC

(* ------------------------------- bounds -------------------------------- *)

\* number of times the clock is advanced
MaxTicks == 6
\* the clock advances by one of these amounts of milliseconds
TickSteps == {1000}
\* the amounts the clock advances by where the flash rates are told apart:
\* 150 ms is above the rate of Lost alone, two such steps are above the rate
\* of Pairing too
LedTickSteps == {150, 1000}
\* width of the modelled millisecond counter
ClockBits == 16
\* largest number of comma-separated fields of an inbound packet
MaxFields == 6
\* number of times the clock is advanced while packets come in
MaxDataTicks == 2

(* ------------------------------ constants ------------------------------ *)

STATE_PAIR   == "PAIR"
STATE_NORMAL == "NORMAL"
STATE_LOST   == "LOST"
DeviceState  == {STATE_PAIR, STATE_NORMAL, STATE_LOST}

packetInterval == 1000
maxFailures    == 5

\* unsigned long arithmetic is modulo 2^ClockBits; the target has 32 bits, the
\* model a narrower word so that the values stay within the integers of the model checker
ULongMod == 2 ^ ClockBits

\* unsigned subtraction currentTime - lastX
USub(a, b) == (a - b + ULongMod) % ULongMod

(* ------------------------------- strings ------------------------------- *)

\* a String is a sequence of characters; a float is held as an integer
\* number of 1/FloatScale units
FloatScale == 10 * 10 * 10 * 10

Digits == {"0", "1", "2", "3", "4", "5", "6", "7", "8", "9"}
DigitVal(c) ==
    CASE c = "0" -> 0 [] c = "1" -> 1 [] c = "2" -> 2 [] c = "3" -> 3
      [] c = "4" -> 4 [] c = "5" -> 5 [] c = "6" -> 6 [] c = "7" -> 7
      [] c = "8" -> 8 [] c = "9" -> 9

isspace(c) == c = " "

\* String::substring(left, right): the characters left .. right-1 (0-based)
substring(s, left, right) == SubSeq(s, left + 1, right)

\* String::trim(): drops leading and trailing white space
RECURSIVE trimLeft(_)
trimLeft(s) == IF s # <<>> /\ isspace(Head(s)) THEN trimLeft(Tail(s)) ELSE s
RECURSIVE trimRight(_)
trimRight(s) ==
    IF s # <<>> /\ isspace(s[Len(s)]) THEN trimRight(SubSeq(s, 1, Len(s) - 1)) ELSE s
trim(s) == trimRight(trimLeft(s))

\* the digits s[i], s[i+1], ... read as a number; <<value, digits read>>
RECURSIVE readDigits(_, _, _, _)
readDigits(s, i, value, count) ==
    IF i <= Len(s) /\ s[i] \in Digits
    THEN readDigits(s, i + 1, value * 10 + DigitVal(s[i]), count + 1)
    ELSE <<value, count>>

\* the fraction digits s[i], ... at weight scale/10, scale/100, ...;
\* <<value in 1/FloatScale units, digits read>>
RECURSIVE readFraction(_, _, _, _, _)
readFraction(s, i, scale, value, count) ==
    IF i <= Len(s) /\ s[i] \in Digits
    THEN readFraction(s, i + 1, scale \div 10,
                      value + DigitVal(s[i]) * (scale \div 10), count + 1)
    ELSE <<value, count>>

\* String::toFloat(): atof() of the buffer.  White space is skipped, then an
\* optional sign, digits, and an optional point with digits are converted; the
\* conversion stops at the first other character, and a text with no digits
\* (the empty String too) gives 0.0.
toFloat(str) ==
    LET s     == trimLeft(str)
        neg   == s # <<>> /\ s[1] = "-"
        start == IF s # <<>> /\ s[1] \in {"-", "+"} THEN 2 ELSE 1
        whole == readDigits(s, start, 0, 0)
        dot   == start + whole[2]
        frac  == IF dot <= Len(s) /\ s[dot] = "."
                 THEN readFraction(s, dot + 1, FloatScale, 0, 0)
                 ELSE <<0, 0>>
        mag   == whole[1] * FloatScale + frac[1]
    IN  IF whole[2] + frac[2] = 0 THEN 0
        ELSE IF neg THEN 0 - mag ELSE mag

(* ------------------------- parseReceivedPacket ------------------------- *)

\* String parts[5]
PartsSize  == 5
EmptyParts == [k \in 0 .. (PartsSize - 1) |-> <<>>]

\* parts[index] = text; a store past the end of the array is recorded in
\* overrun and leaves the five elements as they are
storePart(st, index, text) ==
    IF index < PartsSize
    THEN [st EXCEPT !.parts[index] = trim(text)]
    ELSE [st EXCEPT !.overrun = TRUE]

\* for (int i = 0; i < packet.length(); i++) { if (packet.charAt(i) == ',') ... }
RECURSIVE splitLoop(_, _, _)
splitLoop(packet, i, st) ==
    IF i >= Len(packet) THEN st
    ELSE IF packet[i + 1] = ","
         THEN LET stored == IF st.commaCount < 5
                            THEN storePart(st, st.commaCount,
                                           substring(packet, st.lastIndex, i))
                            ELSE st
              IN  splitLoop(packet, i + 1,
                            [stored EXCEPT !.commaCount = st.commaCount + 1,
                                           !.lastIndex = i + 1])
         ELSE splitLoop(packet, i + 1, st)

\* the splitting part of parseReceivedPacket: the comma loop, then the store
\* of the last part
splitPacket(packet) ==
    LET st == splitLoop(packet, 0,
                        [commaCount |-> 0, lastIndex |-> 0,
                         parts |-> EmptyParts, overrun |-> FALSE])
    IN  IF st.commaCount >= 4 /\ st.lastIndex < Len(packet)
        THEN storePart(st, st.commaCount,
                       substring(packet, st.lastIndex, Len(packet)))
        ELSE st

\* enoughParts with the test off by one
enoughPartsFrom3(packet) == splitPacket(packet).commaCount >= 3

\* if (commaCount >= 4)
enoughParts(packet) == splitPacket(packet).commaCount >= 4

\* ReceivedData receivedData = {"", 0.0, 0.0, 0.0, 0, false}
NoReceivedData ==
    [timestamp |-> <<>>, latitude |-> 0, longitude |-> 0, altitude |-> 0,
     rssi |-> 0, hasReceivedData |-> FALSE]

(* ------------------------------- inputs -------------------------------- *)

\* fields joined with commas
RECURSIVE joinFields(_)
joinFields(fields) ==
    IF fields = <<>> THEN <<>>
    ELSE IF Len(fields) = 1 THEN fields[1]
    ELSE fields[1] \o <<",">> \o joinFields(Tail(fields))

\* the texts a field of an inbound packet is drawn from: nothing, a text
\* that is no number, and a number with a blank, a sign and a fraction
FieldTexts == {<<>>, <<"x">>, <<" ", "-", "1", ".", "5">>}

\* the sequences of n fields
FieldLists(n) == [1 .. n -> FieldTexts]

\* the packets a client may write: the empty value and every packet of 1 to
\* MaxFields fields
DecodePackets ==
    {<<>>} \cup {joinFields(f) : f \in UNION {FieldLists(n) : n \in 1 .. MaxFields}}

\* the packets a client writes while the loop task sends: two records of
\* five fields, a record with a sixth field as the tag itself sends them, and
\* a packet of two fields
PacketA     == joinFields(<< <<"a">>, <<"b">>, <<"1">>, <<"2">>, <<"3">> >>)
PacketB     == joinFields(<< <<"c">>, <<"d">>, <<"4">>, <<"5">>, <<"6">> >>)
PacketSix   == joinFields(<< <<"e">>, <<"f">>, <<"7">>, <<"8">>, <<"9">>, <<"5">> >>)
PacketShort == joinFields(<< <<"a">>, <<"b">> >>)
DataPackets == {PacketA, PacketB, PacketSix, PacketShort}

(* -------------------------------- state -------------------------------- *)

VARIABLES
    currentState,          \* DeviceState currentState
    deviceConnected,       \* bool deviceConnected
    consecutiveFailures,   \* int consecutiveFailures
    lastPacketTime,        \* unsigned long lastPacketTime
    lastLedTime,           \* unsigned long lastLedTime
    lastStateChange,       \* unsigned long lastStateChange
    ledFlashRate,          \* unsigned long ledFlashRate
    ledState,              \* bool ledState
    receivedData,          \* ReceivedData receivedData
    now,                   \* value millis() returns
    nticks,                \* number of clock advances so far
    pcLoop,                \* position of the loop task
    currentTime,           \* loop(): unsigned long currentTime
    data,                  \* handle*Mode(): PacketData data
    failuresRead,          \* value loaded by consecutiveFailures++
    newStateLoop,          \* changeState(newState) called from the loop task
    pcCb,                  \* position of the BLE task
    newStateCb,            \* changeState(newState) called from a callback
    packet,                \* parseReceivedPacket(packet)
    parts,                 \* parseReceivedPacket(): String parts[5]
    streak,                \* history: failed sends of handleNormalMode since
                           \* NORMAL was entered or a send succeeded
    connectedFrom,         \* history: currentState when onConnect was entered
    everConnected,         \* history: onConnect has been entered
    decoded,               \* history: the record parseReceivedPacket stored last
    crossed,               \* history: changeState has reported LOST since
                           \* NORMAL was entered last
    lastAttempt            \* history: currentTime of the last call of
                           \* sendPacket, -1 before the first

modeVars  == <<currentState, lastStateChange, ledFlashRate>>
ledVars   == <<lastLedTime, ledState>>
clock     == <<now, nticks>>
loopLocal == <<currentTime, data, failuresRead, newStateLoop>>
cbLocal   == <<newStateCb, packet, parts>>
history   == <<streak, connectedFrom, everConnected, decoded, crossed,
               lastAttempt>>

vars == <<modeVars, deviceConnected, consecutiveFailures, lastPacketTime,
          ledVars, receivedData, clock, pcLoop, loopLocal, pcCb, cbLocal,
          history>>

\* no PacketData is being built
NoPacket == [timestamp |-> <<>>, latitude |-> 0, longitude |-> 0,
             altitude |-> 0, rssi |-> 0]

\* the globals as their initialisers leave them, and the locals and the
\* history before anything has run
Constructed ==
    /\ currentState = STATE_PAIR
    /\ deviceConnected = FALSE
    /\ consecutiveFailures = 0
    /\ lastPacketTime = 0
    /\ lastLedTime = 0
    /\ lastStateChange = 0
    /\ ledFlashRate = 500
    /\ ledState = FALSE
    /\ receivedData = NoReceivedData
    /\ now = 0
    /\ nticks = 0
    /\ currentTime = 0
    /\ data = NoPacket
    /\ failuresRead = 0
    /\ newStateLoop = STATE_PAIR
    /\ pcCb = "idle"
    /\ newStateCb = STATE_PAIR
    /\ packet = <<>>
    /\ parts = EmptyParts
    /\ streak = 0
    /\ connectedFrom = STATE_PAIR
    /\ everConnected = FALSE
    /\ decoded = NoReceivedData
    /\ crossed = FALSE
    /\ lastAttempt = 0 - 1

\* the state setup() leaves when no client connects before it returns:
\* changeState(STATE_PAIR) finds currentState already STATE_PAIR and changes
\* nothing
Init == Constructed /\ pcLoop = "loop"

\* the state in setup() when initializeBLE() has returned: the server is
\* advertising and changeState(STATE_PAIR) is still to be called
InitBoot == Constructed /\ pcLoop = "setup"

(* ------------------------------- clock --------------------------------- *)

Tick ==
    /\ nticks < MaxTicks
    /\ \E d \in TickSteps : now' = (now + d) % ULongMod
    /\ nticks' = nticks + 1
    /\ UNCHANGED <<modeVars, deviceConnected, consecutiveFailures,
                   lastPacketTime, ledVars, receivedData, pcLoop, loopLocal,
                   pcCb, cbLocal, history>>

\* the clock advancing in steps below the flash rates too
TickLed ==
    /\ nticks < MaxTicks
    /\ \E d \in LedTickSteps : now' = (now + d) % ULongMod
    /\ nticks' = nticks + 1
    /\ UNCHANGED <<modeVars, deviceConnected, consecutiveFailures,
                   lastPacketTime, ledVars, receivedData, pcLoop, loopLocal,
                   pcCb, cbLocal, history>>

\* the clock advancing by half the packet interval, or to just below the
\* point where the counter wraps around
WrapTickSteps == {packetInterval \div 2, ULongMod - packetInterval}

TickWrap ==
    /\ nticks < MaxTicks
    /\ \E d \in WrapTickSteps : now' = (now + d) % ULongMod
    /\ nticks' = nticks + 1
    /\ UNCHANGED <<modeVars, deviceConnected, consecutiveFailures,
                   lastPacketTime, ledVars, receivedData, pcLoop, loopLocal,
                   pcCb, cbLocal, history>>

\* the clock running on for ever, half of its range at a time: the counter
\* wraps around at every second advance.  A pass of loop() takes far
\* less than such a step, so the loop task has read the clock (currentTime =
\* now) before it advances again.
LiveStep == 2 ^ (ClockBits - 1)

TickLive ==
    /\ currentTime = now
    /\ now' = (now + LiveStep) % ULongMod
    /\ UNCHANGED <<modeVars, deviceConnected, consecutiveFailures,
                   lastPacketTime, ledVars, receivedData, nticks, pcLoop,
                   loopLocal, pcCb, cbLocal, history>>

(* ----------------------------- changeState ----------------------------- *)

\* switch (newState) of changeState
FlashRateOf(newState) ==
    CASE newState = STATE_PAIR   -> 200
      [] newState = STATE_NORMAL -> 500
      [] newState = STATE_LOST   -> 100

\* changeState without the test of currentState
changeStateUntested(pc, pcNext, newState, ret) ==
    \/ /\ pc = "cs_check"
       /\ pcNext = "cs_state"
       /\ crossed' = IF newState = STATE_LOST THEN TRUE ELSE crossed
       /\ UNCHANGED <<modeVars, streak>>
    \/ /\ pc = "cs_state"
       /\ currentState' = newState
       /\ streak' = IF newState = STATE_NORMAL THEN 0 ELSE streak
       /\ crossed' = IF newState = STATE_NORMAL THEN FALSE ELSE crossed
       /\ pcNext = "cs_time"
       /\ UNCHANGED <<lastStateChange, ledFlashRate>>
    \/ /\ pc = "cs_time"
       /\ lastStateChange' = now
       /\ pcNext = "cs_rate"
       /\ UNCHANGED <<currentState, ledFlashRate, streak, crossed>>
    \/ /\ pc = "cs_rate"
       /\ ledFlashRate' = FlashRateOf(newState)
       /\ pcNext = ret
       /\ UNCHANGED <<currentState, lastStateChange, streak, crossed>>

\* changeState(newState), one access to a global per step; pc is the caller's
\* position, ret the position the call returns to.  The change is printed
\* ("State change: ...") when the test passes, before currentState is set.
changeState(pc, pcNext, newState, ret) ==
    \/ /\ pc = "cs_check"                       \* if (currentState != newState)
       /\ pcNext = IF currentState # newState THEN "cs_state" ELSE ret
       /\ crossed' = IF currentState # newState /\ newState = STATE_LOST
                     THEN TRUE ELSE crossed
       /\ UNCHANGED <<modeVars, streak>>
    \/ /\ pc = "cs_state"                       \* currentState = newState
       /\ currentState' = newState
       /\ streak' = IF newState = STATE_NORMAL THEN 0 ELSE streak
       /\ crossed' = IF newState = STATE_NORMAL THEN FALSE ELSE crossed
       /\ pcNext = "cs_time"
       /\ UNCHANGED <<lastStateChange, ledFlashRate>>
    \/ /\ pc = "cs_time"                        \* lastStateChange = millis()
       /\ lastStateChange' = now
       /\ pcNext = "cs_rate"
       /\ UNCHANGED <<currentState, ledFlashRate, streak, crossed>>
    \/ /\ pc = "cs_rate"                        \* switch (newState)
       /\ ledFlashRate' = FlashRateOf(newState)
       /\ pcNext = ret
       /\ UNCHANGED <<currentState, lastStateChange, streak, crossed>>

(* ------------------------------ loop task ------------------------------ *)

\* setup() after initializeBLE(): changeState(STATE_PAIR), then loop() is
\* called for the first time
setup ==
    /\ pcLoop = "setup"
    /\ newStateLoop' = STATE_PAIR
    /\ pcLoop' = "cs_check"
    /\ UNCHANGED <<modeVars, deviceConnected, consecutiveFailures,
                   lastPacketTime, ledVars, receivedData, clock, currentTime,
                   data, failuresRead, pcCb, cbLocal, history>>

\* loop(): unsigned long currentTime = millis()
loop ==
    /\ pcLoop = "loop"
    /\ currentTime' = now
    /\ pcLoop' = "led"
    /\ UNCHANGED <<modeVars, deviceConnected, consecutiveFailures,
                   lastPacketTime, ledVars, receivedData, clock, data,
                   failuresRead, newStateLoop, pcCb, cbLocal, history>>

updateLedForState ==
    /\ pcLoop = "led"
    /\ IF USub(currentTime, lastLedTime) >= ledFlashRate
       THEN /\ lastLedTime' = currentTime
            /\ ledState' = ~ledState
       ELSE UNCHANGED ledVars
    /\ pcLoop' = "switch"
    /\ UNCHANGED <<modeVars, deviceConnected, consecutiveFailures,
                   lastPacketTime, receivedData, clock, loopLocal, pcCb,
                   cbLocal, history>>

\* switch (currentState) of loop(); handlePairMode has an empty body
loopSwitch ==
    /\ pcLoop = "switch"
    /\ pcLoop' = CASE currentState = STATE_PAIR   -> "loop"
                   [] currentState = STATE_NORMAL -> "n_guard"
                   [] currentState = STATE_LOST   -> "l_guard"
    /\ UNCHANGED <<modeVars, deviceConnected, consecutiveFailures,
                   lastPacketTime, ledVars, receivedData, clock, loopLocal,
                   pcCb, cbLocal, history>>

\* the condition both handlers send under
sendDue == deviceConnected /\ USub(currentTime, lastPacketTime) >= packetInterval

\* handleGuard without the store of lastPacketTime
handleGuardNoStamp(here, next) ==
    /\ pcLoop = here
    /\ pcLoop' = IF sendDue THEN next ELSE "loop"
    /\ UNCHANGED <<modeVars, deviceConnected, consecutiveFailures,
                   lastPacketTime, ledVars, receivedData, clock, loopLocal,
                   pcCb, cbLocal, history>>

\* if (deviceConnected && ...) { lastPacketTime = currentTime; ...
handleGuard(here, next) ==
    /\ pcLoop = here
    /\ IF sendDue
       THEN /\ lastPacketTime' = currentTime
            /\ pcLoop' = next
       ELSE /\ pcLoop' = "loop"
            /\ UNCHANGED lastPacketTime
    /\ UNCHANGED <<modeVars, deviceConnected, consecutiveFailures, ledVars,
                   receivedData, clock, loopLocal, pcCb, cbLocal, history>>

\* getCurrentTimestamp(): the text strftime makes of the local time
LocalTimestamp == <<"now">>

\* gatherSensorData taking the RSSI of the record received
gatherSensorDataCachedRssi ==
    IF receivedData.hasReceivedData
    THEN [timestamp |-> receivedData.timestamp,
          latitude  |-> receivedData.latitude,
          longitude |-> receivedData.longitude,
          altitude  |-> receivedData.altitude,
          rssi      |-> receivedData.rssi]
    ELSE [timestamp |-> LocalTimestamp,
          latitude  |-> 263082 * (FloatScale \div 10000),
          longitude |-> (0 - 981740) * (FloatScale \div 10000),
          altitude  |-> 10 * FloatScale,
          rssi      |-> IF deviceConnected THEN 0 - 50 ELSE 0]

\* gatherSensorData(): the record received if there is one, else the
\* local time and the placeholder position 26.3082, -98.1740, 10.0; the
\* RSSI is -50 when connected and 0 otherwise
gatherSensorData ==
    LET position ==
            IF receivedData.hasReceivedData
            THEN [timestamp |-> receivedData.timestamp,
                  latitude  |-> receivedData.latitude,
                  longitude |-> receivedData.longitude,
                  altitude  |-> receivedData.altitude]
            ELSE [timestamp |-> LocalTimestamp,
                  latitude  |-> 263082 * (FloatScale \div 10000),
                  longitude |-> (0 - 981740) * (FloatScale \div 10000),
                  altitude  |-> 10 * FloatScale]
    IN  [timestamp |-> position.timestamp, latitude |-> position.latitude,
         longitude |-> position.longitude, altitude |-> position.altitude,
         rssi |-> IF deviceConnected THEN 0 - 50 ELSE 0]

\* PacketData data = gatherSensorData(); String packet = formatPacket(data);
gather(here, next) ==
    /\ pcLoop = here
    /\ data' = gatherSensorData
    /\ pcLoop' = next
    /\ UNCHANGED <<modeVars, deviceConnected, consecutiveFailures,
                   lastPacketTime, ledVars, receivedData, clock, currentTime,
                   failuresRead, newStateLoop, pcCb, cbLocal, history>>

\* sendPacket(): if (!deviceConnected || !pCharacteristic) return false;
sendPacketCheck(here, notify, failed) ==
    /\ pcLoop = here
    /\ IF ~deviceConnected
       THEN /\ pcLoop' = failed
            /\ data' = NoPacket
       ELSE /\ pcLoop' = notify
            /\ UNCHANGED data
    /\ lastAttempt' = currentTime
    /\ UNCHANGED <<modeVars, deviceConnected, consecutiveFailures,
                   lastPacketTime, ledVars, receivedData, clock, currentTime,
                   failuresRead, newStateLoop, pcCb, cbLocal, streak,
                   connectedFrom, everConnected, decoded, crossed>>

\* sendPacket(): try { setValue; notify; return true; } catch (...) { return false; }
sendPacketNotify(here, succeeded, failed) ==
    /\ pcLoop = here
    /\ \E delivered \in BOOLEAN : pcLoop' = IF delivered THEN succeeded ELSE failed
    /\ data' = NoPacket
    /\ UNCHANGED <<modeVars, deviceConnected, consecutiveFailures,
                   lastPacketTime, ledVars, receivedData, clock, currentTime,
                   failuresRead, newStateLoop, pcCb, cbLocal, history>>

\* handleNormalMode storing the count it loaded instead of one more
handleNormalModeNoCount ==
    \/ handleGuard("n_guard", "n_gather")
    \/ gather("n_gather", "n_send")
    \/ sendPacketCheck("n_send", "n_notify", "n_inc_rd")
    \/ sendPacketNotify("n_notify", "n_success", "n_inc_rd")
    \/ /\ pcLoop = "n_success"
       /\ consecutiveFailures' = 0
       /\ streak' = 0
       /\ pcLoop' = "loop"
       /\ UNCHANGED <<modeVars, deviceConnected, lastPacketTime, ledVars,
                      receivedData, clock, loopLocal, pcCb, cbLocal,
                      connectedFrom, everConnected, decoded, crossed,
                      lastAttempt>>
    \/ /\ pcLoop = "n_inc_rd"
       /\ failuresRead' = consecutiveFailures
       /\ pcLoop' = "n_inc_wr"
       /\ UNCHANGED <<modeVars, deviceConnected, consecutiveFailures,
                      lastPacketTime, ledVars, receivedData, clock,
                      currentTime, data, newStateLoop, pcCb, cbLocal, history>>
    \/ /\ pcLoop = "n_inc_wr"
       /\ consecutiveFailures' = failuresRead
       /\ pcLoop' = "n_check"
       /\ UNCHANGED <<modeVars, deviceConnected, lastPacketTime, ledVars,
                      receivedData, clock, loopLocal, pcCb, cbLocal, history>>
    \/ /\ pcLoop = "n_check"
       /\ IF consecutiveFailures >= maxFailures
          THEN /\ newStateLoop' = STATE_LOST
               /\ pcLoop' = "cs_check"
          ELSE /\ pcLoop' = "loop"
               /\ UNCHANGED newStateLoop
       /\ UNCHANGED <<modeVars, deviceConnected, consecutiveFailures,
                      lastPacketTime, ledVars, receivedData, clock,
                      currentTime, data, failuresRead, pcCb, cbLocal, history>>

handleNormalMode ==
    \/ handleGuard("n_guard", "n_gather")
    \/ gather("n_gather", "n_send")
    \/ sendPacketCheck("n_send", "n_notify", "n_inc_rd")
    \/ sendPacketNotify("n_notify", "n_success", "n_inc_rd")
    \/ /\ pcLoop = "n_success"                  \* consecutiveFailures = 0
       /\ consecutiveFailures' = 0
       /\ streak' = 0
       /\ pcLoop' = "loop"
       /\ UNCHANGED <<modeVars, deviceConnected, lastPacketTime, ledVars,
                      receivedData, clock, loopLocal, pcCb, cbLocal,
                      connectedFrom, everConnected, decoded, crossed,
                      lastAttempt>>
    \/ /\ pcLoop = "n_inc_rd"                   \* consecutiveFailures++ (load)
       /\ failuresRead' = consecutiveFailures
       /\ pcLoop' = "n_inc_wr"
       /\ UNCHANGED <<modeVars, deviceConnected, consecutiveFailures,
                      lastPacketTime, ledVars, receivedData, clock,
                      currentTime, data, newStateLoop, pcCb, cbLocal, history>>
    \/ /\ pcLoop = "n_inc_wr"                   \* consecutiveFailures++ (store)
       /\ consecutiveFailures' = failuresRead + 1
       /\ streak' = streak + 1
       /\ pcLoop' = "n_check"
       /\ UNCHANGED <<modeVars, deviceConnected, lastPacketTime, ledVars,
                      receivedData, clock, loopLocal, pcCb, cbLocal,
                      connectedFrom, everConnected, decoded, crossed,
                      lastAttempt>>
    \/ /\ pcLoop = "n_check"                    \* if (consecutiveFailures >= maxFailures)
       /\ IF consecutiveFailures >= maxFailures
          THEN /\ newStateLoop' = STATE_LOST
               /\ pcLoop' = "cs_check"
          ELSE /\ pcLoop' = "loop"
               /\ UNCHANGED newStateLoop
       /\ UNCHANGED <<modeVars, deviceConnected, consecutiveFailures,
                      lastPacketTime, ledVars, receivedData, clock,
                      currentTime, data, failuresRead, pcCb, cbLocal, history>>

\* handleLostMode without the reset of the counter on success
handleLostModeKeepsCount ==
    \/ handleGuard("l_guard", "l_gather")
    \/ gather("l_gather", "l_send")
    \/ sendPacketCheck("l_send", "l_notify", "loop")
    \/ sendPacketNotify("l_notify", "l_success", "loop")
    \/ /\ pcLoop = "l_success"
       /\ newStateLoop' = STATE_NORMAL
       /\ pcLoop' = "cs_check"
       /\ UNCHANGED <<modeVars, deviceConnected, consecutiveFailures,
                      lastPacketTime, ledVars, receivedData, clock,
                      currentTime, data, failuresRead, pcCb, cbLocal, history>>

\* handleLostMode counting a failed send the way handleNormalMode does
handleLostModeCounts ==
    \/ handleGuard("l_guard", "l_gather")
    \/ gather("l_gather", "l_send")
    \/ sendPacketCheck("l_send", "l_notify", "n_inc_rd")
    \/ sendPacketNotify("l_notify", "l_success", "n_inc_rd")
    \/ /\ pcLoop = "l_success"
       /\ consecutiveFailures' = 0
       /\ newStateLoop' = STATE_NORMAL
       /\ pcLoop' = "cs_check"
       /\ UNCHANGED <<modeVars, deviceConnected, lastPacketTime, ledVars,
                      receivedData, clock, currentTime, data, failuresRead,
                      pcCb, cbLocal, history>>

handleLostMode ==
    \/ handleGuard("l_guard", "l_gather")
    \/ gather("l_gather", "l_send")
    \/ sendPacketCheck("l_send", "l_notify", "loop")
    \/ sendPacketNotify("l_notify", "l_success", "loop")
    \/ /\ pcLoop = "l_success"                  \* consecutiveFailures = 0; changeState(STATE_NORMAL)
       /\ consecutiveFailures' = 0
       /\ newStateLoop' = STATE_NORMAL
       /\ pcLoop' = "cs_check"
       /\ UNCHANGED <<modeVars, deviceConnected, lastPacketTime, ledVars,
                      receivedData, clock, currentTime, data, failuresRead,
                      pcCb, cbLocal, history>>

changeStateLoop ==
    /\ changeState(pcLoop, pcLoop', newStateLoop, "loop")
    /\ UNCHANGED <<deviceConnected, consecutiveFailures, lastPacketTime,
                   ledVars, receivedData, clock, loopLocal, pcCb, cbLocal,
                   connectedFrom, everConnected, decoded, lastAttempt>>

LoopStep ==
    \/ loop
    \/ updateLedForState
    \/ loopSwitch
    \/ handleNormalMode
    \/ handleLostMode
    \/ changeStateLoop

(* ------------------------------ BLE task ------------------------------- *)

\* onConnect calling changeState(STATE_NORMAL) whatever the mode is
onConnectUntested ==
    \/ /\ pcCb = "idle"
       /\ ~deviceConnected
       /\ deviceConnected' = TRUE
       /\ connectedFrom' = currentState
       /\ everConnected' = TRUE
       /\ pcCb' = "c_check"
       /\ UNCHANGED <<modeVars, consecutiveFailures, lastPacketTime, ledVars,
                      receivedData, clock, pcLoop, loopLocal, cbLocal, streak,
                      decoded, crossed, lastAttempt>>
    \/ /\ pcCb = "c_check"
       /\ newStateCb' = STATE_NORMAL
       /\ pcCb' = "cs_check"
       /\ UNCHANGED <<modeVars, deviceConnected, consecutiveFailures,
                      lastPacketTime, ledVars, receivedData, clock, pcLoop,
                      loopLocal, packet, parts, history>>
    \/ /\ pcCb = "c_reset"
       /\ consecutiveFailures' = 0
       /\ pcCb' = "idle"
       /\ UNCHANGED <<modeVars, deviceConnected, lastPacketTime, ledVars,
                      receivedData, clock, pcLoop, loopLocal, cbLocal, history>>

\* MyServerCallbacks::onConnect, entered when a client connects
onConnect ==
    \/ /\ pcCb = "idle"                         \* deviceConnected = true
       /\ ~deviceConnected
       /\ deviceConnected' = TRUE
       /\ connectedFrom' = currentState
       /\ everConnected' = TRUE
       /\ pcCb' = "c_check"
       /\ UNCHANGED <<modeVars, consecutiveFailures, lastPacketTime, ledVars,
                      receivedData, clock, pcLoop, loopLocal, cbLocal, streak,
                      decoded, crossed, lastAttempt>>
    \/ /\ pcCb = "c_check"                      \* if (currentState == STATE_PAIR)
       /\ IF currentState = STATE_PAIR
          THEN /\ newStateCb' = STATE_NORMAL
               /\ pcCb' = "cs_check"
          ELSE /\ pcCb' = "c_reset"
               /\ UNCHANGED newStateCb
       /\ UNCHANGED <<modeVars, deviceConnected, consecutiveFailures,
                      lastPacketTime, ledVars, receivedData, clock, pcLoop,
                      loopLocal, packet, parts, history>>
    \/ /\ pcCb = "c_reset"                      \* consecutiveFailures = 0
       /\ consecutiveFailures' = 0
       /\ pcCb' = "idle"
       /\ UNCHANGED <<modeVars, deviceConnected, lastPacketTime, ledVars,
                      receivedData, clock, pcLoop, loopLocal, cbLocal, history>>

\* MyServerCallbacks::onDisconnect, entered when the client disconnects
onDisconnect ==
    \/ /\ pcCb = "idle"                         \* deviceConnected = false
       /\ deviceConnected
       /\ deviceConnected' = FALSE
       /\ pcCb' = "d_check"
       /\ UNCHANGED <<modeVars, consecutiveFailures, lastPacketTime, ledVars,
                      receivedData, clock, pcLoop, loopLocal, cbLocal, history>>
    \/ /\ pcCb = "d_check"                      \* if (currentState == STATE_NORMAL)
       /\ IF currentState = STATE_NORMAL
          THEN /\ newStateCb' = STATE_PAIR
               /\ pcCb' = "cs_check"
          ELSE /\ pcCb' = "idle"
               /\ UNCHANGED newStateCb
       /\ UNCHANGED <<modeVars, deviceConnected, consecutiveFailures,
                      lastPacketTime, ledVars, receivedData, clock, pcLoop,
                      loopLocal, packet, parts, history>>

\* changeState called from onConnect returns to the reset of the counter,
\* called from onDisconnect to the end of the callback
changeStateCb ==
    /\ changeState(pcCb, pcCb', newStateCb,
                   IF newStateCb = STATE_NORMAL THEN "c_reset" ELSE "idle")
    /\ UNCHANGED <<deviceConnected, consecutiveFailures, lastPacketTime,
                   ledVars, receivedData, clock, pcLoop, loopLocal, cbLocal,
                   connectedFrom, everConnected, decoded, lastAttempt>>

\* MyCharacteristicCallbacks::onWrite, entered when the connected client
\* writes value to the receive characteristic
onWrite(values) ==
    /\ pcCb = "idle"
    /\ deviceConnected
    /\ \E value \in values :
          /\ packet' = value
          /\ pcCb' = IF Len(value) > 0 THEN "w_split" ELSE "idle"
    /\ UNCHANGED <<modeVars, deviceConnected, consecutiveFailures,
                   lastPacketTime, ledVars, receivedData, clock, pcLoop,
                   loopLocal, newStateCb, parts, history>>

\* parseReceivedPacket(packet): the split, then one store into receivedData
\* per step
parseReceivedPacket ==
    \/ /\ pcCb = "w_split"
       /\ ~splitPacket(packet).overrun
       /\ IF enoughParts(packet)
          THEN /\ parts' = splitPacket(packet).parts
               /\ pcCb' = "w_timestamp"
               /\ UNCHANGED packet
          ELSE /\ pcCb' = "idle"
               /\ packet' = <<>>
               /\ UNCHANGED parts
       /\ UNCHANGED <<receivedData, decoded>>
    \/ /\ pcCb = "w_timestamp"
       /\ receivedData' =
             [receivedData EXCEPT !.timestamp = parts[0] \o <<",", " ">> \o parts[1]]
       /\ pcCb' = "w_latitude"
       /\ UNCHANGED <<packet, parts, decoded>>
    \/ /\ pcCb = "w_latitude"
       /\ receivedData' = [receivedData EXCEPT !.latitude = toFloat(parts[2])]
       /\ pcCb' = "w_longitude"
       /\ UNCHANGED <<packet, parts, decoded>>
    \/ /\ pcCb = "w_longitude"
       /\ receivedData' = [receivedData EXCEPT !.longitude = toFloat(parts[3])]
       /\ pcCb' = "w_altitude"
       /\ UNCHANGED <<packet, parts, decoded>>
    \/ /\ pcCb = "w_altitude"
       /\ receivedData' = [receivedData EXCEPT !.altitude = toFloat(parts[4])]
       /\ pcCb' = "w_rssi"
       /\ UNCHANGED <<packet, parts, decoded>>
    \/ /\ pcCb = "w_rssi"
       /\ receivedData' = [receivedData EXCEPT !.rssi = 0]
       /\ pcCb' = "w_flag"
       /\ UNCHANGED <<packet, parts, decoded>>
    \/ /\ pcCb = "w_flag"
       /\ receivedData' = [receivedData EXCEPT !.hasReceivedData = TRUE]
       /\ decoded' = [timestamp |-> parts[0] \o <<",", " ">> \o parts[1],
                      latitude |-> toFloat(parts[2]),
                      longitude |-> toFloat(parts[3]),
                      altitude |-> toFloat(parts[4]),
                      rssi |-> 0, hasReceivedData |-> TRUE]
       /\ pcCb' = "idle"
       /\ packet' = <<>>
       /\ parts' = EmptyParts

parseStep ==
    /\ parseReceivedPacket
    /\ UNCHANGED <<modeVars, deviceConnected, consecutiveFailures,
                   lastPacketTime, ledVars, clock, pcLoop, loopLocal,
                   newStateCb, streak, connectedFrom, everConnected, crossed,
                   lastAttempt>>

\* parseReceivedPacket(packet) when the last part is stored past the end of
\* parts[5] (five commas or more and text after the last one).  The store is
\* undefined behaviour: the five elements are not touched, and the build may
\* go on with commaCount as it was, go on with commaCount overwritten (the
\* packet is then refused), or fault, which restarts the sketch.
parseOverrun ==
    /\ pcCb = "w_split"
    /\ splitPacket(packet).overrun
    /\ \/ /\ parts' = splitPacket(packet).parts
          /\ pcCb' = "w_timestamp"
          /\ UNCHANGED <<modeVars, deviceConnected, consecutiveFailures,
                         lastPacketTime, ledVars, receivedData, clock, pcLoop,
                         loopLocal, newStateCb, packet, history>>
       \/ /\ pcCb' = "idle"
          /\ packet' = <<>>
          /\ UNCHANGED <<modeVars, deviceConnected, consecutiveFailures,
                         lastPacketTime, ledVars, receivedData, clock, pcLoop,
                         loopLocal, newStateCb, parts, history>>
       \/ /\ currentState' = STATE_PAIR
          /\ deviceConnected' = FALSE
          /\ consecutiveFailures' = 0
          /\ lastPacketTime' = 0
          /\ lastLedTime' = 0
          /\ lastStateChange' = 0
          /\ ledFlashRate' = 500
          /\ ledState' = FALSE
          /\ receivedData' = NoReceivedData
          /\ now' = 0
          /\ pcLoop' = "loop"
          /\ currentTime' = 0
          /\ data' = NoPacket
          /\ failuresRead' = 0
          /\ newStateLoop' = STATE_PAIR
          /\ pcCb' = "idle"
          /\ newStateCb' = STATE_PAIR
          /\ packet' = <<>>
          /\ parts' = EmptyParts
          /\ streak' = 0
          /\ connectedFrom' = STATE_PAIR
          /\ everConnected' = FALSE
          /\ decoded' = NoReceivedData
          /\ crossed' = FALSE
          /\ lastAttempt' = 0 - 1
          /\ UNCHANGED nticks

\* the callbacks of the connection
CbStep ==
    \/ onConnect
    \/ onDisconnect
    \/ changeStateCb

\* the callback of the receive characteristic
InboundStep ==
    \/ onWrite(DecodePackets)
    \/ parseStep
    \/ parseOverrun

(* ---------------------------- specifications --------------------------- *)

\* The connectivity state machine: the loop task, the connection callbacks
\* and the clock, interleaved.  Inbound packets are left to SpecDecode: onWrite
\* writes receivedData alone, which the state machine reads only to fill the
\* packet it sends.
Next == LoopStep \/ CbStep \/ Tick

Spec == Init /\ [][Next]_vars

\* the state machine with every callback and every pass of loop() run to
\* completion before the other context takes a step
NextSerial ==
    \/ pcCb = "idle" /\ LoopStep
    \/ (pcLoop = "loop" \/ pcCb # "idle") /\ CbStep
    \/ Tick

SpecSerial == Init /\ [][NextSerial]_vars

\* the BLE task alone: a client connects, writes packets and disconnects
NextDecode == CbStep \/ InboundStep

SpecDecode == Init /\ [][NextDecode]_vars

\* the loop task sending in Normal mode while a client writes packets: the
\* callbacks, onWrite included, interleave with loop() as in Spec.  The clock
\* advances MaxDataTicks times only, which leaves no time for the five failed
\* sends that lead to handleLostMode; handleLostMode builds its packet with
\* the same gatherSensorData.
DataStep ==
    \/ onWrite(DataPackets)
    \/ parseStep
    \/ parseOverrun

NextData ==
    \/ loop
    \/ updateLedForState
    \/ loopSwitch
    \/ handleNormalMode
    \/ CbStep
    \/ DataStep
    \/ nticks < MaxDataTicks /\ Tick

SpecData == Init /\ [][NextData]_vars

\* the state machine with a client that connects and stays connected, a
\* clock that never stops and a loop task that never stops: loop() is called
\* again whenever it returns, and millis() goes on.  onConnect interleaves
\* with loop() as in Spec; onDisconnect is never called.
NextLive ==
    \/ LoopStep
    \/ onConnect
    \/ changeStateCb
    \/ TickLive

SpecLive ==
    Init /\ [][NextLive]_vars /\ WF_vars(LoopStep) /\ WF_vars(TickLive)

\* the state machine of SpecSerial with a clock that advances in steps below
\* the flash rates too
NextLed ==
    \/ pcCb = "idle" /\ LoopStep
    \/ (pcLoop = "loop" \/ pcCb # "idle") /\ CbStep
    \/ TickLed

SpecLed == Init /\ [][NextLed]_vars

\* the state machine of SpecSerial with a clock that wraps around
NextWrap ==
    \/ pcCb = "idle" /\ LoopStep
    \/ (pcLoop = "loop" \/ pcCb # "idle") /\ CbStep
    \/ TickWrap

SpecWrap == Init /\ [][NextWrap]_vars

\* the state machine from the call of changeState in setup() on; the server
\* advertises from initializeBLE() on, so that the connection callbacks may
\* run before setup() returns
NextBoot == setup \/ Next

SpecBoot == InitBoot /\ [][NextBoot]_vars

(* -------------------------------- claims ------------------------------- *)

\* a callback of the BLE task returns in this step
CbReturns == pcCb # "idle" /\ pcCb' = "idle"
\* the loop task is inside sendPacket
InSendPacket == pcLoop \in {"n_send", "n_notify", "l_send", "l_notify"}
\* the loop task's changeState(newState) leaves its test or its assignment of
\* currentState in this step with currentState set
LoopSetsState(newState) ==
    /\ newStateLoop = newState
    /\ \/ pcLoop = "cs_state" /\ pcLoop' = "cs_time"
       \/ pcLoop = "cs_check" /\ pcLoop' = "loop"

\* C1: whenever onDisconnect has been handled (the callback that returns with
\* deviceConnected false), the mode is Pairing
C1_DisconnectEndsInPair ==
    [][(CbReturns /\ ~deviceConnected') => currentState' = STATE_PAIR]_vars

\* C2: the mode is Lost only with five failed sends in a row since Normal was
\* entered, and a pass of loop() that ends in Normal has recorded fewer than five
C2_LostOnFifthFailure ==
    /\ currentState = STATE_LOST => streak = maxFailures
    /\ (currentState = STATE_NORMAL /\ pcLoop = "loop") => streak < maxFailures

\* C3: the successful send of handleLostMode (the only caller of
\* changeState(STATE_NORMAL) in the loop task) leaves the mode Normal and the
\* failure count 0 in the step that sets the mode
C3_LostSuccessToNormal ==
    [][LoopSetsState(STATE_NORMAL)
         => (currentState' = STATE_NORMAL /\ consecutiveFailures' = 0)]_vars

\* C3 witness: the successful send of handleLostMode is about to set Normal
\* while the mode is Lost
C3_Witness ==
    pcLoop = "cs_state" /\ newStateLoop = STATE_NORMAL /\ currentState = STATE_LOST

\* C4: for a connection that began in Pairing, onConnect returns with the
\* mode Normal and the failure count 0, and the onDisconnect that follows
\* returns with the mode Pairing whatever the failure count is
C4_ConnectThenDisconnect ==
    [][/\ (CbReturns /\ deviceConnected' /\ connectedFrom = STATE_PAIR)
            => (currentState' = STATE_NORMAL /\ consecutiveFailures' = 0)
       /\ (CbReturns /\ ~deviceConnected' /\ connectedFrom = STATE_PAIR)
            => currentState' = STATE_PAIR]_vars

\* C5: every change of the mode is Pairing to Normal or Normal to Pairing made
\* by a connection callback, Normal to Lost or Lost to Normal made by the loop
\* task, or Lost to Pairing made by a connection callback; the mode never goes
\* from Pairing to Lost
C5_OnlyListedTransitions ==
    [][currentState' # currentState =>
         \/ /\ currentState = STATE_PAIR /\ currentState' = STATE_NORMAL
            /\ pcCb' # pcCb
         \/ /\ currentState = STATE_NORMAL /\ currentState' = STATE_PAIR
            /\ pcCb' # pcCb
         \/ /\ currentState = STATE_NORMAL /\ currentState' = STATE_LOST
            /\ pcLoop' # pcLoop
         \/ /\ currentState = STATE_LOST /\ currentState' = STATE_NORMAL
            /\ pcLoop' # pcLoop
         \/ /\ currentState = STATE_LOST /\ currentState' = STATE_PAIR
            /\ pcCb' # pcCb]_vars

\* C6: while the mode is Normal the failure count is within 0 .. 5, and it is
\* below 5 whenever the loop task is between two passes of loop()
C6_FailuresBoundedInNormal ==
    currentState = STATE_NORMAL =>
        /\ consecutiveFailures \in 0 .. maxFailures
        /\ pcLoop = "loop" => consecutiveFailures < maxFailures

\* C9: the loop task is inside sendPacket only when the mode is not Pairing and
\* a client has connected before
C9_NoSendWhilePairing ==
    InSendPacket => (currentState # STATE_PAIR /\ everConnected)

\* C10: the flash rate is the one changeState sets for the current mode
C10_CadenceMatchesMode == ledFlashRate = FlashRateOf(currentState)

\* the number of commas of a text
RECURSIVE commas(_)
commas(text) ==
    IF text = <<>> THEN 0
    ELSE (IF Head(text) = "," THEN 1 ELSE 0) + commas(Tail(text))

\* the fields of a text, cut at its commas
RECURSIVE fieldsOf(_, _)
fieldsOf(text, field) ==
    IF text = <<>> THEN <<field>>
    ELSE IF Head(text) = "," THEN <<field>> \o fieldsOf(Tail(text), <<>>)
    ELSE fieldsOf(Tail(text), Append(field, Head(text)))

\* a decimal number: an optional sign, then digits with at most one point and
\* nothing else, blanks around it aside
IsDecimal(text) ==
    LET t      == trim(text)
        body   == IF t # <<>> /\ t[1] \in {"-", "+"} THEN Tail(t) ELSE t
        points == {i \in 1 .. Len(body) : body[i] = "."}
    IN  /\ \A i \in 1 .. Len(body) : body[i] \in Digits \cup {"."}
        /\ Cardinality(points) <= 1
        /\ \E i \in 1 .. Len(body) : body[i] \in Digits

\* a packet of five fields whose latitude, longitude or altitude is no number
HasBadNumber(text) ==
    /\ commas(text) = 4
    /\ \E k \in 3 .. 5 : ~IsDecimal(fieldsOf(text, <<>>)[k])

\* parseReceivedPacket leaves its split in this step
SplitDone == pcCb = "w_split" /\ pcCb' # "w_split"

\* C7: a packet of five fields with a latitude, longitude or altitude that is
\* no decimal number is refused: the callback returns after the split and
\* receivedData is as it was
C7_BadNumberRefused ==
    [][(SplitDone /\ HasBadNumber(packet))
         => (pcCb' = "idle" /\ receivedData' = receivedData)]_vars

\* C8: a packet with fewer than 4 commas is refused: the callback returns after
\* the split and every field of receivedData is as it was
C8_ShortPacketChangesNothing ==
    [][(SplitDone /\ commas(packet) < 4)
         => (pcCb' = "idle" /\ receivedData' = receivedData)]_vars

\* C8 witness: a packet with fewer than 4 commas is about to be split while a
\* record received earlier is held
C8_Witness ==
    /\ pcCb = "w_split"
    /\ commas(packet) < 4
    /\ packet # <<>>
    /\ receivedData.hasReceivedData
    /\ receivedData.latitude # 0

\* changeState(newState) of the loop task, or of a callback, leaves its test
\* in this step having found currentState equal to newState
LoopSameState == pcLoop = "cs_check" /\ pcLoop' # "cs_check" /\ currentState = newStateLoop
CbSameState   == pcCb = "cs_check" /\ pcCb' # "cs_check" /\ currentState = newStateCb

\* C11: changeState(newState) with newState the current mode returns from its
\* test: it prints no change of state and leaves currentState,
\* lastStateChange, ledFlashRate, lastLedTime and consecutiveFailures as they
\* were
C11_SameStateIsNoOp ==
    [][/\ LoopSameState =>
            /\ pcLoop' = "loop"
            /\ UNCHANGED <<modeVars, lastLedTime, consecutiveFailures>>
       /\ CbSameState =>
            /\ pcCb' \in {"c_reset", "idle"}
            /\ UNCHANGED <<modeVars, lastLedTime, consecutiveFailures>>]_vars

\* C11 witness: the changeState(STATE_PAIR) of setup() is at its test with
\* the mode Pairing
C11_Witness ==
    pcLoop = "cs_check" /\ newStateLoop = STATE_PAIR /\ currentState = STATE_PAIR

\* the loop task builds its packet in this step
Gathers == pcLoop \in {"n_gather", "l_gather"} /\ pcLoop' \in {"n_send", "l_send"}
\* sendPacket finds the client connected in this step and goes on to notify
SendsPacket == pcLoop \in {"n_send", "l_send"} /\ pcLoop' \in {"n_notify", "l_notify"}

PositionOf(r) == <<r.timestamp, r.latitude, r.longitude, r.altitude>>
\* the local timestamp with the placeholder position 26.3082, -98.1740, 10.0
PlaceholderPosition ==
    <<LocalTimestamp, 263082 * (FloatScale \div 10000),
      (0 - 981740) * (FloatScale \div 10000), 10 * FloatScale>>

\* C13: every packet built carries the timestamp, latitude, longitude and
\* altitude of the packet parseReceivedPacket decoded last, and the local
\* timestamp with the placeholder position when none has been decoded
C13_PacketCarriesLastDecoded ==
    [][Gathers => PositionOf(data') = (IF decoded.hasReceivedData
                                       THEN PositionOf(decoded)
                                       ELSE PlaceholderPosition)]_vars

\* the send of handleLostMode fails in this step
FailsInLost ==
    pcLoop \in {"l_send", "l_notify"} /\ pcLoop' \notin {pcLoop, "l_notify", "l_success"}
\* changeState of the loop task prints the change to Lost in this step
ReportsLost == pcLoop = "cs_check" /\ pcLoop' = "cs_state" /\ newStateLoop = STATE_LOST

\* C14: a failed send in Lost ends the pass of loop() with the mode and the
\* failure count as they were and without a call of changeState; the failure
\* count is never raised while the mode is Lost; and the change to Lost is
\* reported only when none has been reported since Normal was entered last
C14_CrossingActedOnce ==
    [][/\ FailsInLost =>
            /\ pcLoop' = "loop"
            /\ UNCHANGED <<currentState, consecutiveFailures>>
       /\ (currentState = STATE_LOST /\ currentState' = STATE_LOST)
            => consecutiveFailures' <= consecutiveFailures
       /\ ReportsLost => ~crossed]_vars

\* C14 witness: the change to Lost has been reported and a send of
\* handleLostMode is about to fail
C14_Witness ==
    /\ pcLoop = "l_notify"
    /\ currentState = STATE_LOST
    /\ crossed
    /\ consecutiveFailures = maxFailures

\* C15: from every state with the mode Normal, the mode becomes Lost unless
\* the client is found disconnected or a send succeeds
C15_FailuresEscalate ==
    (currentState = STATE_NORMAL)
        ~> \/ currentState = STATE_LOST
           \/ ~deviceConnected
           \/ pcLoop \in {"n_success", "l_success"}

\* C15 witness: the mode is Lost after five failed sends in a row to a
\* client that is connected
C15_Witness ==
    currentState = STATE_LOST /\ deviceConnected /\ streak = maxFailures

\* updateLedForState runs in this step
LedPass == pcLoop = "led" /\ pcLoop' = "switch"

\* C16: a pass of loop() toggles ledState exactly when the time since the
\* last toggle is at least the flash rate of the current mode, and then the
\* time of the toggle is the time of the pass; ledState changes nowhere else
C16_TogglesAtCadence ==
    [][/\ LedPass =>
            /\ ledState' # ledState
                 <=> USub(currentTime, lastLedTime) >= FlashRateOf(currentState)
            /\ ledState' # ledState => lastLedTime' = currentTime
       /\ ledState' # ledState => LedPass]_vars

\* no callback and no pass of loop() is under way
Quiet == pcLoop = "loop" /\ pcCb = "idle"
\* the modes, connection flags and failure counts found between handlers
\* when every callback and every pass of loop() runs to completion
SerialStates ==
    \/ /\ currentState = STATE_PAIR
       /\ ~deviceConnected
       /\ consecutiveFailures \in 0 .. (maxFailures - 1)
    \/ /\ currentState = STATE_NORMAL
       /\ deviceConnected
       /\ consecutiveFailures \in 0 .. (maxFailures - 1)
    \/ /\ currentState = STATE_LOST
       /\ consecutiveFailures \in {0, maxFailures}

\* C17: between handlers, the mode, the connection flag and the failure count
\* are a combination that is reached with every callback and every pass of
\* loop() run to completion
C17_InterleavedWithinSerial == Quiet => SerialStates

\* C20: between handlers, the mode is Normal only while a client is connected
C20_NormalOnlyWhileConnected ==
    (Quiet /\ currentState = STATE_NORMAL) => deviceConnected

\* C18: whatever packet parseReceivedPacket is given, none of its stores
\* parts[index] = ... has an index of 5 or more
C18_StoresWithinParts ==
    pcCb = "w_split" => ~splitPacket(packet).overrun

\* sendPacket is called in this step
Attempts == pcLoop \in {"n_send", "l_send"} /\ pcLoop' # pcLoop /\ pcCb' = pcCb

\* C19: every call of sendPacket, from handleNormalMode or handleLostMode,
\* is made in a pass of loop() whose time is at least packetInterval after
\* the time of the pass of the call before it, the difference taken modulo
\* the range of the counter
C19_AttemptsSpaced ==
    [][(Attempts /\ lastAttempt >= 0)
         => USub(currentTime, lastAttempt) >= packetInterval]_vars

\* C19 witness: sendPacket is about to be called in a pass whose time is
\* below the time of the call before it: the counter has wrapped around
\* between the two
C19_Witness ==
    /\ pcLoop \in {"n_send", "l_send"}
    /\ lastAttempt >= 0
    /\ currentTime < lastAttempt
    /\ currentTime < packetInterval

\* a client connects: onConnect is entered
ConnectEntered == pcCb = "idle" /\ pcCb' = "c_check"

\* the BLE task is inside onConnect, changeState(STATE_NORMAL) included
InOnConnect ==
    \/ pcCb \in {"c_check", "c_reset"}
    \/ pcCb \in {"cs_check", "cs_state", "cs_time", "cs_rate"}
          /\ newStateCb = STATE_NORMAL

\* a step of onConnect after its first
ConnectStep == InOnConnect /\ pcCb' # pcCb

\* C21: the first step of onConnect sets deviceConnected and nothing else;
\* when onConnect was entered with the mode NORMAL or LOST, its later steps
\* never enter changeState, leave currentState, ledFlashRate and
\* lastStateChange (and the packet time, the indicator and the record
\* received) as they are, and it returns by storing 0 in
\* consecutiveFailures; a step of onConnect changes currentState only when
\* it was entered with the mode PAIR
C21_ConnectOutsidePairKeepsMode ==
    [][/\ ConnectEntered
            => /\ deviceConnected'
               /\ UNCHANGED <<modeVars, consecutiveFailures, lastPacketTime,
                              ledVars, receivedData>>
       /\ (ConnectStep /\ connectedFrom # STATE_PAIR)
            => /\ UNCHANGED <<modeVars, deviceConnected, lastPacketTime,
                              ledVars, receivedData>>
               /\ pcCb' \in {"c_reset", "idle"}
               /\ pcCb' = "c_reset" => UNCHANGED consecutiveFailures
               /\ pcCb' = "idle" => consecutiveFailures' = 0
       /\ (ConnectStep /\ currentState' # currentState)
            => connectedFrom = STATE_PAIR]_vars

\* C21 witness: a client has connected with the mode LOST and failures
\* counted; onConnect has passed its test without calling changeState and
\* is about to reset the counter, the mode still LOST
C21_Witness ==
    /\ pcCb = "c_reset"
    /\ connectedFrom = STATE_LOST
    /\ currentState = STATE_LOST
    /\ deviceConnected
    /\ consecutiveFailures > 0

====
